---- MODULE Spec2Model ----
(***************************************************************************)
(* Model of src/providers/github.ts: the GitHub sponsorship provider.      *)
(*                                                                         *)
(*  - Spec          the whole provider call (GitHubProvider.fetchSponsors) *)
(*                  in both modes: the sequential cursor pagination, the   *)
(*                  response checks, the maintainer post-processing, and   *)
(*                  in sponsees mode the grouping, the concurrent          *)
(*                  total-amount fan-out (Promise.all) and the emission.   *)
(*  - SpecAllocator getCurrentMonthTier applied to bounded inputs.         *)
(*  - SpecProcess   the maintainer post-processing (l.104-140) applied to *)
(*                  bounded lists of raw nodes and configs.                *)
(*  - SpecAggregate groupSponsoringRecordsByLogin, summarizeSponsoring-    *)
(*                  Records and the emission applied to bounded records.   *)
(*                                                                         *)
(* Values that JavaScript leaves optional (undefined / null) are modelled  *)
(* as sequences of length 0 or 1.  A cursor is a string, "" standing for   *)
(* every falsy cursor (undefined, null, "").                               *)
(***************************************************************************)
EXTENDS Integers, Sequences, FiniteSets, TLC

VARIABLES
    config,       \* the SponsorkitConfig of the call (mode, tiers, prorateOnetime) and the clock
    pc,           \* position of the async function
    cursor,       \* `cursor` of the pagination loop
    nodes,        \* accumulated raw nodes (`sponsors` l.73, `nodes` l.252)
    requests,     \* every request handed to $fetch, in issue order
    served,       \* every response the transport gave to a page request, in order
    groups,       \* recordsBySponsorable (l.369): sequence of [login, list]
    pending,      \* logins whose total-amount query is in flight
    settled,      \* the settled total-amount promises [login, error, total], in settling order
    totalServed,  \* every <<login, response>> the transport gave to a total-amount query, in order
    outcome,      \* the promise returned to the caller
    call,         \* arguments of the pure function under SpecAllocator/SpecProcess/SpecAggregate
    ret           \* its result

vars == <<config, pc, cursor, nodes, requests, served, groups, pending,
          settled, totalServed, outcome, call, ret>>

-----------------------------------------------------------------------------
(* Bounds of the model *)

\* most page requests one call may issue (the transport stub has at most this many pages)
MaxPages == 3
\* greatest budget (raw.tier.monthlyPriceInDollars) handed to the allocator
MaxBudget == 12
\* greatest elapsed month count considered by SpecAllocator
MaxElapsed == 4
\* longest tier catalog
MaxTiers == 3
\* longest record list handed to the aggregation
MaxRecords == 3

-----------------------------------------------------------------------------
(* Optional values *)

None == <<>>
Some(x) == <<x>>
IsSome(o) == o # <<>>
Get(o) == o[1]

RECURSIVE Concat(_)
Concat(ss) == IF ss = <<>> THEN <<>> ELSE Head(ss) \o Concat(Tail(ss))

SeqsUpTo(S, n) == UNION {[1..k -> S] : k \in 0..n}

-----------------------------------------------------------------------------
(* Dates.  A Date is [year, month]; a createdAt string is the fixed-width   *)
(* ISO-8601 UTC text of the API's DateTime scalar, kept as its fields       *)
(* <<year, month>> in the order in which they are written.                  *)

\* the values of the clock read by `new Date()` (l.104)
Clocks == {[year |-> 2024, month |-> 2]}

\* new Date(createdAt)
NewDate(createdAt) == [year |-> createdAt[1], month |-> createdAt[2]]

\* Date.parse(createdAt): a number that grows with the instant
DateParse(createdAt) == createdAt[1] * 12 + createdAt[2]

\* a.localeCompare(b) on two createdAt strings: the sign of the first field that differs
LocaleCompare(a, b) ==
    IF a[1] # b[1] THEN (IF a[1] < b[1] THEN -1 ELSE 1)
    ELSE IF a[2] # b[2] THEN (IF a[2] < b[2] THEN -1 ELSE 1)
    ELSE 0

\* the createdAt string of the month that lies k months before the date `now`
MonthsAgo(now, k) ==
    LET m == now.year * 12 + (now.month - 1) - k
    IN  <<m \div 12, (m % 12) + 1>>

getMonthDifference(startDate, endDate) ==
    (endDate.year - startDate.year) * 12 + (endDate.month - startDate.month)

-----------------------------------------------------------------------------
(* getCurrentMonthTier (l.9-35) *)

\* the state of the loop: the index of the tier the for-of is about to visit, the
\* locals monthlyDollars and currentMonths, and the value returned once it has returned
LoopState(i, monthlyDollars, currentMonths, done, result) ==
    [i |-> i, monthlyDollars |-> monthlyDollars, currentMonths |-> currentMonths,
     done |-> done, result |-> result]

\* TierStep with the window test `>=` in place of `>` (l.25)
TierStepInclusive(tiers, elapsed, st) ==
    IF st.i > Len(tiers)
    THEN LoopState(st.i, st.monthlyDollars, st.currentMonths, TRUE, -1)
    ELSE LET price == tiers[st.i].monthlyDollars
             monthsAtTier == st.monthlyDollars \div price
         IN  IF monthsAtTier = 0
             THEN LoopState(st.i + 1, st.monthlyDollars, st.currentMonths, FALSE, 0)
             ELSE IF st.currentMonths + monthsAtTier >= elapsed
             THEN LoopState(st.i, st.monthlyDollars, st.currentMonths, TRUE, price)
             ELSE LoopState(st.i + 1, st.monthlyDollars - monthsAtTier * price,
                            st.currentMonths + monthsAtTier, FALSE, 0)

\* one pass of the loop body (l.17-32), or the return after the loop (l.34)
TierStep(tiers, elapsed, st) ==
    IF st.i > Len(tiers)
    THEN LoopState(st.i, st.monthlyDollars, st.currentMonths, TRUE, -1)
    ELSE LET price == tiers[st.i].monthlyDollars
             monthsAtTier == st.monthlyDollars \div price
         IN  IF monthsAtTier = 0
             THEN LoopState(st.i + 1, st.monthlyDollars, st.currentMonths, FALSE, 0)
             ELSE IF st.currentMonths + monthsAtTier > elapsed
             THEN LoopState(st.i, st.monthlyDollars, st.currentMonths, TRUE, price)
             ELSE LoopState(st.i + 1, st.monthlyDollars - monthsAtTier * price,
                            st.currentMonths + monthsAtTier, FALSE, 0)

RECURSIVE RunTiers(_, _, _)
RunTiers(tiers, elapsed, st) ==
    IF st.done THEN st.result ELSE RunTiers(tiers, elapsed, TierStep(tiers, elapsed, st))

\* the loop state at entry (l.15)
EnterTiers(monthlyDollars) == LoopState(1, monthlyDollars, 0, FALSE, 0)

getCurrentMonthTier(now, sponsorDate, tiers, monthlyDollars) ==
    RunTiers(tiers, getMonthDifference(sponsorDate, now), EnterTiers(monthlyDollars))

-----------------------------------------------------------------------------
(* The tier catalog of fetchGitHubSponsors (l.76) *)

\* Array.prototype.sort with the comparator (a, b) => b.monthlyDollars - a.monthlyDollars:
\* a stable sort, descending by price
RECURSIVE InsertDesc(_, _)
InsertDesc(t, sorted) ==
    IF sorted = <<>> THEN <<t>>
    ELSE IF Head(sorted).monthlyDollars >= t.monthlyDollars
         THEN <<Head(sorted)>> \o InsertDesc(t, Tail(sorted))
         ELSE <<t>> \o sorted

RECURSIVE SortDesc(_)
SortDesc(ts) ==
    IF ts = <<>> THEN <<>>
    ELSE InsertDesc(ts[Len(ts)], SortDesc(SubSeq(ts, 1, Len(ts) - 1)))

IsEligibleTier(t) == t.monthlyDollars # 0 /\ t.monthlyDollars > 0

\* `tiers` (l.76): undefined when config.tiers is
CatalogOf(cfg) ==
    IF cfg.tiers = None THEN None
    ELSE Some(SortDesc(SelectSeq(Get(cfg.tiers), IsEligibleTier)))

-----------------------------------------------------------------------------
(* Raw nodes.  A raw sponsorship node is                                    *)
(*   [createdAt, privacyLevel, isActive,                                    *)
(*    tier   : optional [name, isOneTime, monthlyPriceInDollars],           *)
(*    entity : optional [typename, login]]                                  *)
(* where entity is the node's sponsorEntity (maintainer query) or its       *)
(* sponsorable (sponsor query).                                             *)

RawTier(name, oneTime, price) ==
    [name |-> name, isOneTime |-> oneTime, monthlyPriceInDollars |-> price]

RawEntity(typename, login) == [typename |-> typename, login |-> login]

RawNode(createdAt, privacy, active, tier, entity) ==
    [createdAt |-> createdAt, privacyLevel |-> privacy, isActive |-> active,
     tier |-> tier, entity |-> entity]

-----------------------------------------------------------------------------
(* The maintainer post-processing of fetchGitHubSponsors (l.104-140) *)

\* ProrationCall without the test of raw.tier.isOneTime (l.111)
ProrationCallAnyTier(raw, cfg, tiers, now) ==
    IF ~raw.isActive /\ IsSome(tiers) /\ cfg.prorateOnetime
    THEN Some([dateNow |-> now, sponsorDate |-> NewDate(raw.createdAt),
               tiers |-> Get(tiers),
               monthlyDollars |-> Get(raw.tier).monthlyPriceInDollars])
    ELSE None

\* the arguments with which the map callback calls getCurrentMonthTier (l.110-118),
\* None when it does not call it
ProrationCall(raw, cfg, tiers, now) ==
    IF ~raw.isActive /\ IsSome(tiers) /\ Get(raw.tier).isOneTime /\ cfg.prorateOnetime
    THEN Some([dateNow |-> now, sponsorDate |-> NewDate(raw.createdAt),
               tiers |-> Get(tiers),
               monthlyDollars |-> Get(raw.tier).monthlyPriceInDollars])
    ELSE None

\* `monthlyDollars` of the map callback (l.108-122)
MonthlyDollarsOf(raw, cfg, tiers, now) ==
    LET c == ProrationCall(raw, cfg, tiers, now)
    IN  IF raw.isActive THEN Get(raw.tier).monthlyPriceInDollars
        ELSE IF IsSome(c)
             THEN getCurrentMonthTier(Get(c).dateNow, Get(c).sponsorDate,
                                      Get(c).tiers, Get(c).monthlyDollars)
             ELSE -1

\* the Sponsorship the map callback returns (l.124-137)
ToSponsorship(raw, cfg, tiers, now) ==
    [sponsor |-> [type |-> Get(raw.entity).typename, login |-> Get(raw.entity).login],
     isOneTime |-> Get(raw.tier).isOneTime,
     monthlyDollars |-> MonthlyDollarsOf(raw, cfg, tiers, now),
     privacyLevel |-> raw.privacyLevel,
     tierName |-> Get(raw.tier).name,
     createdAt |-> raw.createdAt]

HasTier(raw) == IsSome(raw.tier)

\* `processed` (l.105-138): the list, or the TypeError of reading a field of a
\* null sponsorEntity (l.126-130)
Processed(sponsors, cfg, now) ==
    LET kept == SelectSeq(sponsors, HasTier)
        tiers == CatalogOf(cfg)
    IN  IF \E i \in 1..Len(kept) : kept[i].entity = None
        THEN [ok |-> FALSE, list |-> <<>>]
        ELSE [ok |-> TRUE,
              list |-> [i \in 1..Len(kept) |-> ToSponsorship(kept[i], cfg, tiers, now)]]

-----------------------------------------------------------------------------
(* The sponsee aggregation (l.271-347, l.377-404).  The `raw` payload that  *)
(* a record and a summary carry along for traceability is left out: no      *)
(* decision reads it.                                                       *)

toGitHubSponsoringRecord(raw) ==
    [sponsorable |-> [type |-> Get(raw.entity).typename, login |-> Get(raw.entity).login],
     monthlyDollars |-> Get(raw.tier).monthlyPriceInDollars,
     tierName |-> Get(raw.tier).name,
     isOneTime |-> Get(raw.tier).isOneTime,
     privacyLevel |-> raw.privacyLevel,
     createdAt |-> raw.createdAt,
     isActive |-> raw.isActive]

HasTierAndSponsorable(raw) == IsSome(raw.tier) /\ IsSome(raw.entity)

\* the filter and map of fetchGitHubSponsoring (l.357-359)
RecordsOf(rawNodes) ==
    LET kept == SelectSeq(rawNodes, HasTierAndSponsorable)
    IN  [i \in 1..Len(kept) |-> toGitHubSponsoringRecord(kept[i])]

\* the Map is kept as the sequence of its entries [login, list] in insertion order
RECURSIVE GroupLoop(_, _)
GroupLoop(records, map) ==
    IF records = <<>> THEN map
    ELSE LET record == Head(records)
             hit == {i \in 1..Len(map) : map[i].login = record.sponsorable.login}
         IN  GroupLoop(Tail(records),
                 IF hit # {}
                 THEN [map EXCEPT ![CHOOSE i \in hit : TRUE].list = Append(@, record)]
                 ELSE Append(map, [login |-> record.sponsorable.login, list |-> <<record>>]))

\* grouping that joins a record only to the entry inserted last
RECURSIVE GroupAdjacentLoop(_, _)
GroupAdjacentLoop(records, map) ==
    IF records = <<>> THEN map
    ELSE LET record == Head(records)
         IN  GroupAdjacentLoop(Tail(records),
                 IF map # <<>> /\ map[Len(map)].login = record.sponsorable.login
                 THEN [map EXCEPT ![Len(map)].list = Append(@, record)]
                 ELSE Append(map, [login |-> record.sponsorable.login, list |-> <<record>>]))

GroupAdjacentRecords(records) == GroupAdjacentLoop(records, <<>>)

groupSponsoringRecordsByLogin(records) == GroupLoop(records, <<>>)

\* SummaryLoop with the comparison of l.336 turned round
RECURSIVE SummaryLoopLastCreated(_, _)
SummaryLoopLastCreated(rest, acc) ==
    IF rest = <<>> THEN acc
    ELSE LET record == Head(rest)
         IN  SummaryLoopLastCreated(Tail(rest),
                 [latest |-> IF DateParse(record.createdAt) > DateParse(acc.latest.createdAt)
                             THEN record ELSE acc.latest,
                  firstCreatedAt |-> IF LocaleCompare(record.createdAt, acc.firstCreatedAt) > 0
                                     THEN record.createdAt ELSE acc.firstCreatedAt,
                  isOneTime |-> acc.isOneTime /\ record.isOneTime])

RECURSIVE SummaryLoop(_, _)
SummaryLoop(rest, acc) ==
    IF rest = <<>> THEN acc
    ELSE LET record == Head(rest)
         IN  SummaryLoop(Tail(rest),
                 [latest |-> IF DateParse(record.createdAt) > DateParse(acc.latest.createdAt)
                             THEN record ELSE acc.latest,
                  firstCreatedAt |-> IF LocaleCompare(record.createdAt, acc.firstCreatedAt) < 0
                                     THEN record.createdAt ELSE acc.firstCreatedAt,
                  isOneTime |-> acc.isOneTime /\ record.isOneTime])

\* summary whose isOneTime is assigned rather than and-ed (l.338)
RECURSIVE SummaryLoopAssign(_, _)
SummaryLoopAssign(rest, acc) ==
    IF rest = <<>> THEN acc
    ELSE LET record == Head(rest)
         IN  SummaryLoopAssign(Tail(rest),
                 [latest |-> IF DateParse(record.createdAt) > DateParse(acc.latest.createdAt)
                             THEN record ELSE acc.latest,
                  firstCreatedAt |-> IF LocaleCompare(record.createdAt, acc.firstCreatedAt) < 0
                                     THEN record.createdAt ELSE acc.firstCreatedAt,
                  isOneTime |-> record.isOneTime])

SummarizeAssigning(records) ==
    SummaryLoopAssign(Tail(records),
                [latest |-> Head(records),
                 firstCreatedAt |-> Head(records).createdAt,
                 isOneTime |-> Head(records).isOneTime])

summarizeSponsoringRecords(records) ==
    SummaryLoop(Tail(records),
                [latest |-> Head(records),
                 firstCreatedAt |-> Head(records).createdAt,
                 isOneTime |-> Head(records).isOneTime])

\* totalBySponsorable.get(login) || 0, the Map kept as its set of <<login, cents>> pairs
TotalOf(totalBySponsorable, login) ==
    IF \E e \in totalBySponsorable : e[1] = login
    THEN (CHOOSE e \in totalBySponsorable : e[1] = login)[2]
    ELSE 0

\* totalInCents / 100 as the exact decimal: whole dollars and hundredths
DivideBy100(totalInCents) ==
    [whole |-> totalInCents \div 100, hundredths |-> totalInCents % 100]

\* the Sponsorship emitted for one Map entry (l.377-404)
EmitSponsorship(entry, totalBySponsorable) ==
    LET summary == summarizeSponsoringRecords(entry.list)
        totalInCents == TotalOf(totalBySponsorable, entry.login)
    IN  [sponsor |-> [type |-> summary.latest.sponsorable.type,
                      login |-> summary.latest.sponsorable.login],
         isOneTime |-> summary.isOneTime,
         monthlyDollars |-> DivideBy100(totalInCents),
         privacyLevel |-> summary.latest.privacyLevel,
         tierName |-> summary.latest.tierName,
         createdAt |-> summary.firstCreatedAt]

EmitAll(recordsBySponsorable, totalBySponsorable) ==
    [i \in 1..Len(recordsBySponsorable) |->
        EmitSponsorship(recordsBySponsorable[i], totalBySponsorable)]

\* [...recordsBySponsorable.keys()] (l.374)
KeysOf(recordsBySponsorable) ==
    [i \in 1..Len(recordsBySponsorable) |-> recordsBySponsorable[i].login]

-----------------------------------------------------------------------------
(* The transport.  What $fetch gives back for one request is                *)
(*   [kind   : "throw" (the call rejects), "null" (a falsy body) or "body", *)
(*    errors : the `type` of each entry of body.errors (<<>> when absent),  *)
(*    page   : optional page container, sponsorshipsAsMaintainer or         *)
(*             sponsorshipsAsSponsor: [nodes : optional list,               *)
(*             pageInfo : optional [hasNextPage, endCursor]],               *)
(*    total  : optional number totalSponsorshipAmountAsSponsorInCents]      *)

Response(kind, errors, page, total) ==
    [kind |-> kind, errors |-> errors, page |-> page, total |-> total]

Page(pageNodes, pageInfo) == [nodes |-> pageNodes, pageInfo |-> pageInfo]

PageInfo(hasNextPage, endCursor) == [hasNextPage |-> hasNextPage, endCursor |-> endCursor]

Err(name, errors) == [name |-> name, errors |-> errors]

\* the response checks of fetchGitHubSponsors (l.88-93): the error thrown, if any
CheckMaintainerResponse(data) ==
    IF data.kind = "null" THEN Some(Err("MissingResponse", <<>>))
    ELSE IF data.errors # <<>> /\ data.errors[1] = "INSUFFICIENT_SCOPES"
         THEN Some(Err("InsufficientScope", <<>>))
    ELSE IF Len(data.errors) # 0 THEN Some(Err("ApiError", data.errors))
    ELSE None

\* requestGitHubSponsoringGraphQL with the two error tests in the other order
RequestGraphQLApiErrorFirst(data) ==
    IF data.kind = "null" THEN Some(Err("MissingResponse", <<>>))
    ELSE IF Len(data.errors) # 0 THEN Some(Err("ApiError", data.errors))
    ELSE IF data.errors # <<>> /\ data.errors[1] = "INSUFFICIENT_SCOPES"
         THEN Some(Err("InsufficientScope", <<>>))
    ELSE None

\* the response checks of requestGitHubSponsoringGraphQL (l.236-241): the error thrown, if any
requestGitHubSponsoringGraphQL(data) ==
    IF data.kind = "null" THEN Some(Err("MissingResponse", <<>>))
    ELSE IF data.errors # <<>> /\ data.errors[1] = "INSUFFICIENT_SCOPES"
         THEN Some(Err("InsufficientScope", <<>>))
    ELSE IF Len(data.errors) # 0 THEN Some(Err("ApiError", data.errors))
    ELSE None

\* page.nodes || []
NodesOrEmpty(page) == IF page.nodes = None THEN <<>> ELSE Get(page.nodes)

Iteration(error, list, next) == [error |-> error, nodes |-> list, cursor |-> next]

\* one pass of the do-while body of fetchGitHubSponsors once $fetch has settled (l.79-101):
\* the error thrown if any, else the grown list and the next cursor.  Reading a field of
\* an absent container (l.96) or of an absent pageInfo (l.98) throws a TypeError.
MaintainerIteration(data, sponsors) ==
    IF data.kind = "throw" THEN Iteration(Some(Err("FetchError", <<>>)), sponsors, "")
    ELSE IF IsSome(CheckMaintainerResponse(data))
         THEN Iteration(CheckMaintainerResponse(data), sponsors, "")
    ELSE IF data.page = None \/ Get(data.page).pageInfo = None
         THEN Iteration(Some(Err("TypeError", <<>>)), sponsors, "")
    ELSE Iteration(None, sponsors \o NodesOrEmpty(Get(data.page)),
                   IF Get(Get(data.page).pageInfo).hasNextPage
                   THEN Get(Get(data.page).pageInfo).endCursor ELSE "")

\* SponsoringIteration that follows endCursor whatever hasNextPage says (l.263)
SponsoringIterationAnyCursor(data, list) ==
    IF data.kind = "throw" THEN Iteration(Some(Err("FetchError", <<>>)), list, "")
    ELSE IF IsSome(requestGitHubSponsoringGraphQL(data))
         THEN Iteration(requestGitHubSponsoringGraphQL(data), list, "")
    ELSE IF data.page = None
         THEN Iteration(Some(Err("MalformedResponse", <<>>)), list, "")
    ELSE Iteration(None, list \o NodesOrEmpty(Get(data.page)),
                   IF Get(data.page).pageInfo # None
                   THEN Get(Get(data.page).pageInfo).endCursor ELSE "")

\* one pass of the do-while body of fetchGitHubSponsoringNodes (l.256-265)
SponsoringIteration(data, list) ==
    IF data.kind = "throw" THEN Iteration(Some(Err("FetchError", <<>>)), list, "")
    ELSE IF IsSome(requestGitHubSponsoringGraphQL(data))
         THEN Iteration(requestGitHubSponsoringGraphQL(data), list, "")
    ELSE IF data.page = None
         THEN Iteration(Some(Err("MalformedResponse", <<>>)), list, "")
    ELSE Iteration(None, list \o NodesOrEmpty(Get(data.page)),
                   IF Get(data.page).pageInfo # None
                      /\ Get(Get(data.page).pageInfo).hasNextPage
                   THEN Get(Get(data.page).pageInfo).endCursor ELSE "")

\* fetchGitHubTotalSponsorshipAmountAsSponsor once $fetch has settled (l.416-422):
\* the error thrown if any, else the total
TotalResult(data) ==
    IF data.kind = "throw" THEN [error |-> Some(Err("FetchError", <<>>)), total |-> 0]
    ELSE IF IsSome(requestGitHubSponsoringGraphQL(data))
         THEN [error |-> requestGitHubSponsoringGraphQL(data), total |-> 0]
    ELSE IF data.total = None
         THEN [error |-> Some(Err("MalformedResponse", <<>>)), total |-> 0]
    ELSE [error |-> None, total |-> Get(data.total)]

(* The requests.  A request is the query text as its parameters. *)

Request(field, activeOnly, after, logins) ==
    [field |-> field, activeOnly |-> activeOnly, after |-> after,
     sponsorableLogins |-> logins]

\* makeQuery (l.143-186): `after` is in the text only for a truthy cursor
makeQuery(activeOnly, after) ==
    Request("sponsorshipsAsMaintainer", activeOnly, IF after # "" THEN after ELSE "", <<>>)

\* makeSponsoringQuery (l.425-468)
makeSponsoringQuery(activeOnly, after) ==
    Request("sponsorshipsAsSponsor", activeOnly, IF after # "" THEN after ELSE "", <<>>)

\* makeSponsoringTotalAmountQuery (l.470-491) without since/until
makeSponsoringTotalAmountQuery(logins) ==
    Request("totalSponsorshipAmountAsSponsorInCents", FALSE, "",
            IF Len(logins) # 0 THEN logins ELSE <<>>)

\* the page query of the call's mode
PageQuery(cfg, after) ==
    IF cfg.mode = "sponsees" THEN makeSponsoringQuery(FALSE, after)
    ELSE makeQuery(~cfg.includePastSponsors, after)

\* one total-amount query for all the logins together
TotalQueriesBatched(sponsorableLogins) ==
    IF sponsorableLogins = <<>> THEN <<>>
    ELSE <<makeSponsoringTotalAmountQuery(sponsorableLogins)>>

\* the requests fetchTotalCentsBySponsorable hands to $fetch, one per login, in key order (l.312-318)
TotalQueries(sponsorableLogins) ==
    [i \in 1..Len(sponsorableLogins) |->
        makeSponsoringTotalAmountQuery(<<sponsorableLogins[i]>>)]

-----------------------------------------------------------------------------
(* The inputs of Spec: what the transport stub may answer *)

EntityA == Some(RawEntity("User", "a"))
EntityB == Some(RawEntity("Organization", "b"))

NodeA1 == RawNode(<<2024, 1>>, "PUBLIC", TRUE, Some(RawTier("gold", TRUE, 10)), EntityA)
NodeA2 == RawNode(<<2023, 12>>, "PRIVATE", FALSE, Some(RawTier("silver", TRUE, 5)), EntityA)
NodeB == RawNode(<<2023, 11>>, "PUBLIC", FALSE, Some(RawTier("silver", FALSE, 5)), EntityB)
NodeNoTier == RawNode(<<2024, 2>>, "PUBLIC", TRUE, None, EntityB)
NodeNoEntity == RawNode(<<2024, 2>>, "PRIVATE", TRUE, Some(RawTier("gold", FALSE, 10)), None)

PageNodeLists ==
    {None, Some(<<NodeB, NodeA2>>), Some(<<NodeNoTier, NodeA1, NodeNoEntity>>)}

Cursors == {"", "c1", "c2"}

ErrorLists ==
    {<<"INSUFFICIENT_SCOPES">>, <<"NOT_FOUND">>,
     <<"NOT_FOUND", "INSUFFICIENT_SCOPES">>, <<"INSUFFICIENT_SCOPES", "NOT_FOUND">>}

FailedResponses ==
    {Response("throw", <<>>, None, None), Response("null", <<>>, None, None)}
    \cup {Response("body", e, None, None) : e \in ErrorLists}

PageResponses ==
    FailedResponses
    \cup {Response("body", <<>>, None, None)}
    \cup {Response("body", <<>>, Some(Page(l, None)), None) : l \in PageNodeLists}
    \cup {Response("body", <<>>, Some(Page(l, Some(PageInfo(h, c)))), None) :
            l \in PageNodeLists, h \in BOOLEAN, c \in Cursors}

TotalResponses ==
    {Response("throw", <<>>, None, None), Response("null", <<>>, None, None),
     Response("body", <<"INSUFFICIENT_SCOPES", "NOT_FOUND">>, None, None),
     Response("body", <<"NOT_FOUND", "INSUFFICIENT_SCOPES">>, None, None),
     Response("body", <<>>, None, None)}
    \cup {Response("body", <<>>, None, Some(n)) : n \in {0, 1999}}

\* the response is an error-free page that announces a next page and names its cursor
Continues(data) ==
    /\ data.kind = "body" /\ data.errors = <<>> /\ data.page # None
    /\ Get(data.page).pageInfo # None
    /\ Get(Get(data.page).pageInfo).hasNextPage
    /\ Get(Get(data.page).pageInfo).endCursor # ""

Catalogs == {None, Some(<<[monthlyDollars |-> 5], [monthlyDollars |-> 0], [monthlyDollars |-> 10]>>)}

Config(mode, paramsOk, includePast, prorate, tiers) ==
    [mode |-> mode, paramsOk |-> paramsOk, includePastSponsors |-> includePast,
     prorateOnetime |-> prorate, tiers |-> tiers]

FlowConfigs ==
    {Config("sponsees", ok, FALSE, FALSE, None) : ok \in BOOLEAN}
    \cup {Config("sponsors", ok, ip, pr, t) :
            ok \in BOOLEAN, ip \in BOOLEAN, pr \in BOOLEAN, t \in Catalogs}

-----------------------------------------------------------------------------
(* The promise returned to the caller *)

Pending == [status |-> "pending", error |-> Err("", <<>>), list |-> <<>>]
Rejected(e) == [status |-> "rejected", error |-> e, list |-> <<>>]
Resolved(list) == [status |-> "resolved", error |-> Err("", <<>>), list |-> list]

\* the iteration the loop of the call's mode runs on the response `data`
IterationOf(cfg, data, list) ==
    IF cfg.mode = "sponsees" THEN SponsoringIteration(data, list)
    ELSE MaintainerIteration(data, list)

-----------------------------------------------------------------------------
(* Spec: one call of GitHubProvider.fetchSponsors (l.42-57) *)

Init ==
    /\ config \in FlowConfigs
    /\ pc = "start"
    /\ cursor = ""
    /\ nodes = <<>>
    /\ requests = <<>>
    /\ served = <<>>
    /\ groups = <<>>
    /\ pending = {}
    /\ settled = <<>>
    /\ totalServed = <<>>
    /\ outcome = Pending
    /\ call = <<>>
    /\ ret = <<>>

\* the parameter checks (l.66-71, l.213-224) fail: nothing is requested
RejectParams ==
    /\ pc = "start" /\ ~config.paramsOk
    /\ outcome' = Rejected(Err("ConfigurationError", <<>>))
    /\ pc' = "done"
    /\ UNCHANGED <<config, cursor, nodes, requests, served, groups, pending, settled,
                   totalServed, call, ret>>

\* the call runs up to its first await: the first page request, without a cursor
FirstRequest ==
    /\ pc = "start" /\ config.paramsOk
    /\ requests' = Append(requests, PageQuery(config, cursor))
    /\ pc' = "page"
    /\ UNCHANGED <<config, cursor, nodes, served, groups, pending, settled,
                   totalServed, outcome, call, ret>>

\* PageFails that hands back the nodes gathered so far instead of rejecting
PageFailsPartial ==
    /\ pc = "page"
    /\ \E data \in PageResponses :
         LET it == IterationOf(config, data, nodes)
         IN  /\ IsSome(it.error)
             /\ served' = Append(served, data)
             /\ outcome' = Resolved(nodes)
             /\ pc' = "done"
    /\ UNCHANGED <<config, cursor, nodes, requests, groups, pending, settled,
                   totalServed, call, ret>>

\* a page request settles and the iteration throws: the call rejects
PageFails ==
    /\ pc = "page"
    /\ \E data \in PageResponses :
         LET it == IterationOf(config, data, nodes)
         IN  /\ IsSome(it.error)
             /\ served' = Append(served, data)
             /\ outcome' = Rejected(Get(it.error))
             /\ pc' = "done"
    /\ UNCHANGED <<config, cursor, nodes, requests, groups, pending, settled,
                   totalServed, call, ret>>

\* a page request settles, the cursor is truthy: the loop issues the next request
PageContinues ==
    /\ pc = "page"
    /\ \E data \in PageResponses :
         LET it == IterationOf(config, data, nodes)
         IN  /\ Len(requests) >= MaxPages => ~Continues(data)
             /\ it.error = None /\ it.cursor # ""
             /\ served' = Append(served, data)
             /\ nodes' = it.nodes
             /\ cursor' = it.cursor
             /\ requests' = Append(requests, PageQuery(config, it.cursor))
    /\ UNCHANGED <<config, pc, groups, pending, settled, totalServed, outcome, call, ret>>

\* fetchGitHubSponsors: the last page settles, the loop ends and the nodes are processed
MaintainerFinishes ==
    /\ pc = "page" /\ config.mode = "sponsors"
    /\ \E data \in PageResponses, now \in Clocks :
         LET it == MaintainerIteration(data, nodes)
             processed == Processed(it.nodes, config, now)
         IN  /\ it.error = None /\ it.cursor = ""
             /\ served' = Append(served, data)
             /\ nodes' = it.nodes
             /\ cursor' = it.cursor
             /\ outcome' = IF processed.ok THEN Resolved(processed.list)
                           ELSE Rejected(Err("TypeError", <<>>))
    /\ pc' = "done"
    /\ UNCHANGED <<config, requests, groups, pending, settled, totalServed, call, ret>>

\* fetchGitHubSponsoringAsSponsorships: the last page settles, the records are grouped
\* and every total-amount query is handed to $fetch (l.368-375)
SponseePagesDone ==
    /\ pc = "page" /\ config.mode = "sponsees"
    /\ \E data \in PageResponses :
         LET it == SponsoringIteration(data, nodes)
             recordsBySponsorable == groupSponsoringRecordsByLogin(RecordsOf(it.nodes))
         IN  /\ it.error = None /\ it.cursor = ""
             /\ served' = Append(served, data)
             /\ nodes' = it.nodes
             /\ cursor' = it.cursor
             /\ groups' = recordsBySponsorable
             /\ requests' = requests \o TotalQueries(KeysOf(recordsBySponsorable))
             /\ pending' = {recordsBySponsorable[i].login : i \in 1..Len(recordsBySponsorable)}
    /\ pc' = "totals"
    /\ UNCHANGED <<config, settled, totalServed, outcome, call, ret>>

Settled(login, r) == [login |-> login, error |-> r.error, total |-> r.total]

\* the Map built from the fulfilled promises (l.310-322), as its set of <<login, cents>> pairs
TotalBySponsorable(promises) ==
    {<<promises[i].login, promises[i].total>> :
        i \in {j \in 1..Len(promises) : promises[j].error = None}}

\* one total-amount query settles; the first to fail rejects Promise.all and the call
TotalSettles ==
    /\ pc = "totals"
    /\ \E login \in pending, data \in TotalResponses :
         LET r == TotalResult(data)
         IN  /\ pending' = pending \ {login}
             /\ totalServed' = Append(totalServed, <<login, data>>)
             /\ settled' = Append(settled, Settled(login, r))
             /\ outcome' = IF IsSome(r.error) /\ outcome.status = "pending"
                           THEN Rejected(Get(r.error)) ELSE outcome
             /\ pc' = IF pending' = {} /\ outcome'.status = "rejected" THEN "done" ELSE pc
    /\ UNCHANGED <<config, cursor, nodes, requests, served, groups, call, ret>>

\* every total-amount query is fulfilled: Promise.all resolves, the list is emitted (l.377-404)
Join ==
    /\ pc = "totals" /\ pending = {} /\ outcome.status = "pending"
    /\ outcome' = Resolved(EmitAll(groups, TotalBySponsorable(settled)))
    /\ pc' = "done"
    /\ UNCHANGED <<config, cursor, nodes, requests, served, groups, pending, settled,
                   totalServed, call, ret>>

Next ==
    \/ RejectParams
    \/ FirstRequest
    \/ PageFails
    \/ PageContinues
    \/ MaintainerFinishes
    \/ SponseePagesDone
    \/ TotalSettles
    \/ Join

Spec == Init /\ [][Next]_vars

-----------------------------------------------------------------------------
(* Properties of Spec *)

IsPageQuery(q) == q.field # "totalSponsorshipAmountAsSponsorInCents"
IsTotalQuery(q) == q.field = "totalSponsorshipAmountAsSponsorInCents"

LastServed == served[Len(served)]

PageRequests == SelectSeq(requests, IsPageQuery)
TotalRequests == SelectSeq(requests, IsTotalQuery)

\* an error-free response that holds a page with its pageInfo
IsPage(data) ==
    /\ data.kind = "body" /\ data.errors = <<>>
    /\ data.page # None /\ Get(data.page).pageInfo # None

HasNextPageOf(data) == Get(Get(data.page).pageInfo).hasNextPage
EndCursorOf(data) == Get(Get(data.page).pageInfo).endCursor

\* the pagination loop has ended and every response it got was a page
PagesExhausted ==
    /\ pc \in {"totals", "done"}
    /\ served # <<>>
    /\ \A i \in 1..Len(served) : IsPage(served[i])

\* one request per page served, the first without a cursor, each later one with the
\* endCursor of the page before it, and the nodes of the pages in order
RequestsFollowPages ==
    /\ Len(PageRequests) = Len(served)
    /\ PageRequests[1].after = ""
    /\ \A i \in 2..Len(served) : PageRequests[i].after = EndCursorOf(served[i - 1])
    /\ nodes = Concat([i \in 1..Len(served) |-> NodesOrEmpty(Get(served[i].page))])

\* C1 as stated: of N pages of which all but the last have hasNextPage = true, all N
\* are requested, so the loop never ends on a page that has hasNextPage = true, and its
\* requests chain the cursors and its nodes are the concatenation of the pages' nodes.
C1_AsStated ==
    PagesExhausted =>
        /\ RequestsFollowPages
        /\ \A i \in 1..(Len(served) - 1) : HasNextPageOf(served[i])
        /\ ~HasNextPageOf(served[Len(served)])

\* C1 amended: of N pages of which all but the last have hasNextPage = true and a
\* non-empty endCursor, all N are requested: the loop goes on after exactly the pages
\* that have both, it ends on the first page that lacks either, its requests chain the
\* cursors and its nodes are the concatenation of the pages' nodes in order.
C1_PaginationComplete ==
    /\ pc = "page" =>
          /\ Len(PageRequests) = Len(served) + 1
          /\ \A i \in 1..Len(served) : IsPage(served[i]) /\ Continues(served[i])
    /\ PagesExhausted =>
          /\ RequestsFollowPages
          /\ \A i \in 1..(Len(served) - 1) : Continues(served[i])
          /\ ~Continues(served[Len(served)])

\* the sponsor paginator has ended on the third page, which names a cursor although
\* it announces no next page
C1_Witness ==
    /\ PagesExhausted /\ Len(served) = 3 /\ Len(nodes) >= 4
    /\ config.mode = "sponsees"
    /\ ~HasNextPageOf(LastServed) /\ EndCursorOf(LastServed) # ""
    /\ PageRequests[2].after # PageRequests[3].after

\* the error C2 assigns to a response that has no body or reports errors
HasNoBody(data) == data.kind = "null"
ReportsErrors(data) == data.kind = "body" /\ data.errors # <<>>
ClassifiedAs(data) ==
    IF HasNoBody(data) THEN Err("MissingResponse", <<>>)
    ELSE IF Head(data.errors) = "INSUFFICIENT_SCOPES" THEN Err("InsufficientScope", <<>>)
    ELSE Err("ApiError", data.errors)

\* the settled promises that rejected
Failures == {i \in 1..Len(settled) : IsSome(settled[i].error)}

\* C2: a response without a body fails with MissingResponse; else one whose first
\* error is INSUFFICIENT_SCOPES fails with InsufficientScope, never ApiError; else one
\* with a non-empty error array fails with ApiError carrying the whole array; only a
\* response without errors is processed further (its nodes taken, the next request
\* issued, its total kept).  For the page responses of the maintainer loop and of
\* requestGitHubSponsoringGraphQL, and for the total-amount responses.
C2_ResponseClassification ==
    /\ \A i \in 1..Len(served) :
          (HasNoBody(served[i]) \/ ReportsErrors(served[i])) =>
              /\ i = Len(served)
              /\ pc = "done"
              /\ outcome = Rejected(ClassifiedAs(served[i]))
              /\ nodes = Concat([j \in 1..(i - 1) |-> NodesOrEmpty(Get(served[j].page))])
              /\ Len(requests) = i
    /\ \A i \in 1..Len(totalServed) :
          LET data == totalServed[i][2]
          IN  /\ settled[i].login = totalServed[i][1]
              /\ (HasNoBody(data) \/ ReportsErrors(data)) =>
                    /\ settled[i].error = Some(ClassifiedAs(data))
                    /\ outcome.status = "rejected"
                    /\ (\A m \in Failures : i <= m) => outcome.error = ClassifiedAs(data)
              /\ settled[i].error = None => ~HasNoBody(data) /\ ~ReportsErrors(data)

\* after a first total-amount query was fulfilled, a total-amount response whose first
\* error is INSUFFICIENT_SCOPES has rejected the call
C2_Witness ==
    /\ Len(totalServed) = 2
    /\ ReportsErrors(totalServed[2][2]) /\ Len(totalServed[2][2].errors) = 2
    /\ outcome.error.name = "InsufficientScope" /\ Failures = {2}

\* an error-free response from which the page container is absent
LacksContainer(data) == data.kind = "body" /\ data.errors = <<>> /\ data.page = None

\* C3 as stated: in both paginated fetches an error-free response without its page
\* container fails the call with MalformedResponse, and no list is returned.
C3_MalformedResponse ==
    \A i \in 1..Len(served) :
        LacksContainer(served[i]) =>
            /\ outcome = Rejected(Err("MalformedResponse", <<>>))
            /\ pc = "done"

\* the transport call or the response check failed on this page response
PageFailed(data) ==
    data.kind = "throw" \/ HasNoBody(data) \/ ReportsErrors(data) \/ LacksContainer(data)

\* the error C4 expects the call to fail with on a failed page response
PageErrors(data) ==
    IF data.kind = "throw" THEN {Err("FetchError", <<>>)}
    ELSE IF LacksContainer(data) THEN {Err("MalformedResponse", <<>>), Err("TypeError", <<>>)}
    ELSE {ClassifiedAs(data)}

\* the number of requests issued for the total of `login`
TotalRequestsFor(login) ==
    Cardinality({i \in 1..Len(requests) :
        IsTotalQuery(requests[i]) /\ requests[i].sponsorableLogins = <<login>>})

\* C4: when a page request fails on page k, or a total-amount query fails, the call
\* rejects with the error of the failure (of the first one to settle when several
\* total-amount queries fail), it returns no list, and the failed request is not issued
\* again: the failed page request is the last request of the call, and each login's total
\* is requested once.
C4_NoPartialNoRetry ==
    /\ \A k \in 1..Len(served) :
          PageFailed(served[k]) =>
              /\ k = Len(served)
              /\ outcome.status = "rejected"
              /\ outcome.error \in PageErrors(served[k])
              /\ outcome.list = <<>>
              /\ Len(requests) = k
              /\ pc = "done"
    /\ \A i \in Failures :
          /\ outcome.status = "rejected"
          /\ outcome.list = <<>>
          /\ (\A m \in Failures : i <= m) => outcome.error = Get(settled[i].error)
          /\ TotalRequestsFor(settled[i].login) = 1
          /\ Len(requests) = Len(served) + Len(groups)
    /\ outcome.status = "rejected" => outcome.list = <<>>

\* the third page request failed after two pages of nodes had been accumulated
C4_Witness ==
    /\ Len(served) = 3 /\ PageFailed(LastServed) /\ Len(nodes) >= 3
    /\ outcome.status = "rejected"

\* sponsorable logins of the fetched history (nodes with a tier and a sponsorable)
DistinctLogins ==
    {Get(nodes[i].entity).login :
        i \in {j \in 1..Len(nodes) : IsSome(nodes[j].tier) /\ IsSome(nodes[j].entity)}}

SettledLogins == {settled[i].login : i \in 1..Len(settled)}

\* the sponsor pagination has completed
FanOutStarted ==
    /\ config.mode = "sponsees" /\ pc \in {"totals", "done"}
    /\ served # <<>> /\ ~PageFailed(LastServed)

\* C10: no total-amount query is issued before the pagination has completed; then
\* one query per distinct sponsorable login is issued, filtered to that login alone, and
\* all of them are in flight together; the list is emitted only when every one of them
\* has completed, and each emitted login carries the total its own query returned.
C10_FanOut ==
    /\ pc \in {"start", "page"} => TotalRequests = <<>> /\ pending = {}
    /\ config.mode = "sponsors" => TotalRequests = <<>>
    /\ FanOutStarted =>
          /\ requests = PageRequests \o TotalRequests
          /\ Len(TotalRequests) = Cardinality(DistinctLogins)
          /\ \A l \in DistinctLogins : TotalRequestsFor(l) = 1
          /\ pending = DistinctLogins \ SettledLogins
          /\ Len(settled) = Cardinality(SettledLogins)
    /\ (config.mode = "sponsees" /\ outcome.status = "resolved") =>
          /\ pending = {}
          /\ SettledLogins = DistinctLogins
          /\ Failures = {}
          /\ \A i \in 1..Len(outcome.list) :
                \E k \in 1..Len(totalServed) :
                    /\ totalServed[k][1] = outcome.list[i].sponsor.login
                    /\ IsSome(totalServed[k][2].total)
                    /\ outcome.list[i].monthlyDollars.whole * 100
                         + outcome.list[i].monthlyDollars.hundredths
                       = Get(totalServed[k][2].total)

\* two queries were in flight together, settled with different totals in the order
\* opposite to the one in which they were issued, and the list was emitted
C10_Witness ==
    /\ config.mode = "sponsees" /\ outcome.status = "resolved"
    /\ Len(outcome.list) = 2
    /\ outcome.list[1].monthlyDollars # outcome.list[2].monthlyDollars
    /\ settled[1].login = TotalRequests[2].sponsorableLogins[1]

-----------------------------------------------------------------------------
(* SpecAllocator: getCurrentMonthTier on every catalog sorted descending    *)
(* with positive prices, every budget and every month distance up to the    *)
(* bounds, the sponsorship created from one month after the clock           *)
(* to MaxElapsed months before it.                                          *)

\* greatest tier price of a catalog
MaxPrice == 5

IsSortedDesc(ts) == \A i \in 1..(Len(ts) - 1) : ts[i].monthlyDollars >= ts[i + 1].monthlyDollars

SortedCatalogs ==
    {ts \in SeqsUpTo([monthlyDollars : 1..MaxPrice], MaxTiers) : IsSortedDesc(ts)}

AllocatorCalls ==
    {[dateNow |-> now, sponsorDate |-> NewDate(MonthsAgo(now, k)), tiers |-> ts,
      monthlyDollars |-> b] :
        now \in Clocks, k \in (-1)..MaxElapsed, ts \in SortedCatalogs, b \in 0..MaxBudget}

Idle ==
    /\ config = Config("sponsors", TRUE, FALSE, FALSE, None)
    /\ pc = "pure"
    /\ cursor = ""
    /\ nodes = <<>>
    /\ requests = <<>>
    /\ served = <<>>
    /\ groups = <<>>
    /\ pending = {}
    /\ settled = <<>>
    /\ totalServed = <<>>
    /\ outcome = Pending

InitAllocator ==
    /\ Idle
    /\ call \in AllocatorCalls
    /\ ret = EnterTiers(call.monthlyDollars)

AllocatorStep ==
    /\ ~ret.done
    /\ ret' = TierStep(call.tiers, getMonthDifference(call.sponsorDate, call.dateNow), ret)
    /\ UNCHANGED <<config, pc, cursor, nodes, requests, served, groups, pending,
                   settled, totalServed, outcome, call>>

NextAllocator == AllocatorStep

SpecAllocator == InitAllocator /\ [][NextAllocator]_vars

(* Properties of SpecAllocator *)

Elapsed == getMonthDifference(call.sponsorDate, call.dateNow)
PriceAt(i) == call.tiers[i].monthlyDollars

\* the budget left when tier i is reached, every earlier tier having taken its months
RECURSIVE BudgetAt(_)
BudgetAt(i) == IF i = 1 THEN call.monthlyDollars ELSE BudgetAt(i - 1) % PriceAt(i - 1)

MonthsAt(i) == BudgetAt(i) \div PriceAt(i)

\* the months accounted for when tier i is reached
RECURSIVE AccountedAt(_)
AccountedAt(i) == IF i = 1 THEN 0 ELSE AccountedAt(i - 1) + MonthsAt(i - 1)

Qualifies(i) == MonthsAt(i) # 0 /\ AccountedAt(i) + MonthsAt(i) > Elapsed

\* C5: the allocator ends within one pass per tier plus the return; it returns the
\* price of the first tier whose monthsAtTier is non-zero and whose window, after the
\* months of the earlier tiers, reaches beyond the elapsed months, and -1 when no tier
\* qualifies; so a catalog price or -1, and -1 for a catalog [p] with budget p once a
\* month or more has elapsed.
C5_AllocatorResult ==
    /\ ret.i \in 1..(Len(call.tiers) + 1)
    /\ ret.done =>
          /\ \/ ret.result = -1
             \/ \E i \in 1..Len(call.tiers) : ret.result = PriceAt(i)
          /\ IF \E i \in 1..Len(call.tiers) : Qualifies(i)
             THEN LET first == CHOOSE i \in 1..Len(call.tiers) :
                                  Qualifies(i) /\ \A j \in 1..(i - 1) : ~Qualifies(j)
                  IN  ret.result = PriceAt(first)
             ELSE ret.result = -1
          /\ (Len(call.tiers) = 1 /\ call.monthlyDollars = PriceAt(1) /\ Elapsed >= 1)
                => ret.result = -1

\* the allocator returned the price of the third tier after two dearer tiers had taken
\* their months
C5_Witness ==
    /\ Len(call.tiers) = 3
    /\ ret.done /\ ret.i = 3 /\ ret.result = PriceAt(3)
    /\ ret.currentMonths >= 2 /\ Elapsed >= 2
    /\ MonthsAt(1) # 0 /\ MonthsAt(2) # 0

-----------------------------------------------------------------------------
(* SpecProcess: the maintainer post-processing (l.104-140) applied to every *)
(* list of raw nodes and every config up to the bounds.                     *)

\* longest list of raw nodes handed to the post-processing
MaxNodes == 2
\* longest configured tier catalog of SpecProcess
MaxCatalog == 2

ProcessTiers == {None, Some(RawTier("gold", TRUE, 5)), Some(RawTier("silver", FALSE, 5))}

ProcessNodes(now) ==
    {RawNode(MonthsAgo(now, k), "PUBLIC", active, tier, EntityA) :
        k \in {0, 2}, active \in BOOLEAN, tier \in ProcessTiers}
    \cup {RawNode(MonthsAgo(now, 0), "PRIVATE", TRUE, Some(RawTier("gold", TRUE, 5)), None)}

ProcessCatalogs ==
    {None} \cup {Some(ts) : ts \in SeqsUpTo([monthlyDollars : {0, 2, 5}], MaxCatalog)}

ProcessCalls ==
    {[sponsors |-> l, config |-> Config("sponsors", TRUE, FALSE, pr, t), dateNow |-> now] :
        l \in UNION {SeqsUpTo(ProcessNodes(n), MaxNodes) : n \in Clocks},
        pr \in BOOLEAN, t \in ProcessCatalogs, now \in Clocks}

\* the calls of getCurrentMonthTier made while mapping, one optional call per kept node
ProrationCalls(sponsors, cfg, now) ==
    LET kept == SelectSeq(sponsors, HasTier)
    IN  [i \in 1..Len(kept) |-> ProrationCall(kept[i], cfg, CatalogOf(cfg), now)]

InitProcess ==
    /\ Idle
    /\ call \in ProcessCalls
    /\ ret = None

ApplyProcess ==
    /\ ret = None
    /\ ret' = Some([processed |-> Processed(call.sponsors, call.config, call.dateNow),
                    calls |-> ProrationCalls(call.sponsors, call.config, call.dateNow)])
    /\ UNCHANGED <<config, pc, cursor, nodes, requests, served, groups, pending,
                   settled, totalServed, outcome, call>>

NextProcess == ApplyProcess

SpecProcess == InitProcess /\ [][NextProcess]_vars

(* Properties of SpecProcess *)

\* the raw nodes that have a tier, in order
KeptNodes == SelectSeq(call.sponsors, HasTier)

\* the positive-price tiers of the configured catalog
PositiveTiers == {i \in 1..Len(Get(call.config.tiers)) : Get(call.config.tiers)[i].monthlyDollars > 0}

CountOf(ts, idx, price) == Cardinality({i \in idx : ts[i].monthlyDollars = price})

\* ts holds exactly the positive-price tiers of the configured catalog, sorted descending
IsProrationCatalog(ts) ==
    /\ IsSortedDesc(ts)
    /\ \A i \in 1..Len(ts) : ts[i].monthlyDollars > 0
    /\ Len(ts) = Cardinality(PositiveTiers)
    /\ \A p \in {0, 2, 5} :
          CountOf(ts, 1..Len(ts), p) = CountOf(Get(call.config.tiers), PositiveTiers, p)

\* C6: of the raw nodes that have a tier, an active one keeps its tier's
\* monthlyPriceInDollars; getCurrentMonthTier is called only for an inactive one-time
\* node and only if config.prorateOnetime is set, with the positive-price tiers of the
\* catalog sorted descending, and its result is the node's monthlyDollars; every other
\* inactive node, recurring or without the opt-in, gets -1.
C6_ProrationGate ==
    IsSome(ret) =>
        LET kept == KeptNodes
            out == Get(ret).processed
            calls == Get(ret).calls
        IN  /\ Len(calls) = Len(kept)
            /\ out.ok => Len(out.list) = Len(kept)
            /\ \A i \in 1..Len(kept) :
                  LET tier == Get(kept[i].tier)
                  IN  /\ IsSome(calls[i]) =>
                            /\ ~kept[i].isActive /\ tier.isOneTime
                            /\ call.config.prorateOnetime
                            /\ IsSome(call.config.tiers)
                            /\ IsProrationCatalog(Get(calls[i]).tiers)
                            /\ Get(calls[i]).monthlyDollars = tier.monthlyPriceInDollars
                      /\ out.ok =>
                            /\ kept[i].isActive =>
                                  out.list[i].monthlyDollars = tier.monthlyPriceInDollars
                            /\ (~kept[i].isActive /\ IsSome(calls[i])) =>
                                  out.list[i].monthlyDollars =
                                      getCurrentMonthTier(Get(calls[i]).dateNow,
                                          Get(calls[i]).sponsorDate, Get(calls[i]).tiers,
                                          Get(calls[i]).monthlyDollars)
                            /\ (~kept[i].isActive
                                    /\ (~tier.isOneTime \/ ~call.config.prorateOnetime)) =>
                                  out.list[i].monthlyDollars = -1 /\ calls[i] = None

\* with an unsorted catalog that holds a zero price, an inactive one-time node was
\* prorated to a tier below its own price, next to an inactive recurring node
C6_Witness ==
    /\ IsSome(ret) /\ Get(ret).processed.ok /\ Len(KeptNodes) = 2
    /\ IsSome(Get(ret).calls[1]) /\ Get(ret).calls[2] = None
    /\ Get(ret).processed.list[1].monthlyDollars = 2
    /\ Get(ret).processed.list[2].monthlyDollars = -1
    /\ ~KeptNodes[2].isActive
    /\ Get(call.config.tiers) = <<[monthlyDollars |-> 0], [monthlyDollars |-> 2]>>

-----------------------------------------------------------------------------
(* SpecAggregate: the grouping, the summary and the emission of             *)
(* fetchGitHubSponsoringAsSponsorships (l.369, l.377-404) applied to every  *)
(* list of sponsoring records up to the bounds and every total per login.   *)

AggregateDates == {<<2023, 12>>, <<2024, 1>>}

AggregateNodes ==
    {RawNode(d, tp[2], tp[3], Some(RawTier(tp[1], ot, tp[4])), e) :
        d \in AggregateDates, ot \in BOOLEAN, e \in {EntityA, EntityB},
        tp \in {<<"gold", "PUBLIC", TRUE, 10>>, <<"silver", "PRIVATE", FALSE, 5>>}}

AggregateRecords == {toGitHubSponsoringRecord(n) : n \in AggregateNodes}

AggregateTotals == {0, 1999}

LoginsOf(records) == {records[i].sponsorable.login : i \in 1..Len(records)}

InitAggregate ==
    /\ Idle
    /\ call \in SeqsUpTo(AggregateRecords, MaxRecords)
    /\ ret = None

ApplyAggregate ==
    /\ ret = None
    /\ \E totals \in [LoginsOf(call) -> AggregateTotals] :
         LET recordsBySponsorable == groupSponsoringRecordsByLogin(call)
             totalBySponsorable == {<<l, totals[l]>> : l \in LoginsOf(call)}
         IN  ret' = Some([totals |-> totalBySponsorable,
                          list |-> EmitAll(recordsBySponsorable, totalBySponsorable)])
    /\ UNCHANGED <<config, pc, cursor, nodes, requests, served, groups, pending,
                   settled, totalServed, outcome, call>>

NextAggregate == ApplyAggregate

SpecAggregate == InitAggregate /\ [][NextAggregate]_vars

(* Properties of SpecAggregate *)

Emitted == Get(ret).list

\* the records of one sponsorable, in fetched order
RecordsFor(login) == SelectSeq(call, LAMBDA r : r.sponsorable.login = login)

\* the position at which a login first occurs in the fetched records
FirstSeen(login) ==
    CHOOSE i \in 1..Len(call) :
        /\ call[i].sponsorable.login = login
        /\ \A j \in 1..(i - 1) : call[j].sponsorable.login # login

\* C7: the emitted list has one entry per distinct sponsorable login of the records:
\* as many entries as logins, no login twice, every login present, in the order in
\* which the logins first occur in the records.
C7_OnePerSponsorable ==
    IsSome(ret) =>
        /\ Len(Emitted) = Cardinality(LoginsOf(call))
        /\ \A i, j \in 1..Len(Emitted) :
              i # j => Emitted[i].sponsor.login # Emitted[j].sponsor.login
        /\ \A l \in LoginsOf(call) : \E i \in 1..Len(Emitted) : Emitted[i].sponsor.login = l
        /\ \A i, j \in 1..Len(Emitted) :
              i < j => FirstSeen(Emitted[i].sponsor.login) < FirstSeen(Emitted[j].sponsor.login)

\* three records of two sponsorables, the first and the last of the same one
C7_Witness ==
    /\ IsSome(ret) /\ Len(call) = 3 /\ Len(Emitted) = 2
    /\ call[1].sponsorable.login = "b" /\ call[2].sponsorable.login = "a"
    /\ call[3].sponsorable.login = "b"

\* C8: the emitted isOneTime of a sponsorable is true exactly when every one of its
\* records is one-time, wherever a recurring record stands in the group.
C8_IsOneTimeAll ==
    IsSome(ret) =>
        \A i \in 1..Len(Emitted) :
            LET g == RecordsFor(Emitted[i].sponsor.login)
            IN  Emitted[i].isOneTime <=> \A k \in 1..Len(g) : g[k].isOneTime

\* a group of three records whose only recurring record is the middle one
C8_Witness ==
    /\ IsSome(ret) /\ Len(Emitted) = 1 /\ Len(call) = 3
    /\ call[1].isOneTime /\ ~call[2].isOneTime /\ call[3].isOneTime
    /\ ~Emitted[1].isOneTime

\* the instant of createdAt a lies after that of b
Later(a, b) == a[1] > b[1] \/ (a[1] = b[1] /\ a[2] > b[2])

\* C9: an emitted entry takes its entity, tierName and privacyLevel from a record
\* of its group than which none was created later; its monthlyDollars is the total of
\* its login in cents divided by 100, whatever the tier prices of the records; its
\* createdAt is the earliest createdAt of the group, so never later than the createdAt
\* of the latest record.
C9_LatestAndLifetime ==
    IsSome(ret) =>
        \A i \in 1..Len(Emitted) :
            LET e == Emitted[i]
                g == RecordsFor(e.sponsor.login)
            IN  /\ \E k \in 1..Len(g) :
                      /\ \A m \in 1..Len(g) : ~Later(g[m].createdAt, g[k].createdAt)
                      /\ e.sponsor = g[k].sponsorable
                      /\ e.tierName = g[k].tierName
                      /\ e.privacyLevel = g[k].privacyLevel
                      /\ ~Later(e.createdAt, g[k].createdAt)
                /\ <<e.sponsor.login, e.monthlyDollars.whole * 100 + e.monthlyDollars.hundredths>>
                      \in Get(ret).totals
                /\ e.monthlyDollars.hundredths \in 0..99
                /\ \E k \in 1..Len(g) : g[k].createdAt = e.createdAt
                /\ \A m \in 1..Len(g) : ~Later(e.createdAt, g[m].createdAt)

\* a group whose latest record stands in the middle, a year boundary between it and
\* the two others, emitted with a total that is no tier price
C9_Witness ==
    /\ IsSome(ret) /\ Len(Emitted) = 1 /\ Len(call) = 3
    /\ call[1].createdAt = <<2023, 12>> /\ call[2].createdAt = <<2024, 1>>
    /\ call[3].createdAt = <<2023, 12>>
    /\ call[2].tierName # call[1].tierName /\ call[2].tierName # call[3].tierName
    /\ Emitted[1].tierName = call[2].tierName
    /\ Emitted[1].createdAt = <<2023, 12>>
    /\ Emitted[1].monthlyDollars = [whole |-> 19, hundredths |-> 99]

====
